---- MODULE Spec2Model ----
(***************************************************************************)
(* Port-ZiLLA scan engine: the probe workers (scanner/port_scanner.rs,     *)
(* scanner/syn_scanner.rs), the result model (scanner/models.rs) and the   *)
(* engine that drives them (scanner/engine.rs).                            *)
(*                                                                         *)
(* Spec     : the engine step by step, one action per poll of a future     *)
(*            (scan, scan_with_progress, PortScanner::scan_ports).         *)
(* SpecBig  : ScanEngine::scan as one step, on the scan modes whose port   *)
(*            lists are too long to step through (Quick, Full, 0..65535).  *)
(* SpecProbe: one call of Scanner::scan_port on each connection result, of  *)
(*            ServiceDetector::detect_service on each grab outcome, or of  *)
(*            a lookup of network/network_portocols.rs.                    *)
(* SpecRate : Spec with the passing of time.                               *)
(* SpecStore: a scan, ScanRepository::save_scan and the read back          *)
(*            (storage/repository.rs).                                     *)
(* SpecFront: the command line's execute_scan (main.rs) and the API's      *)
(*            handle_start_scan (web/api.rs) in front of the engine.       *)
(* SpecGrab : BannerGrabber::grab_banner await by await                    *)
(*            (network/banner_grabber.rs).                                 *)
(* SpecAwaited: scan and PortScanner::scan_ports awaited to the end, their *)
(*            steps taken fairly.                                          *)
(* SpecLimiter: the web RateLimiter called from two threads                *)
(*            (web/middleware.rs).                                         *)
(***************************************************************************)
EXTENDS Integers, Sequences, FiniteSets, TLC

\* ------------------------------------------------------------------ bounds
\* Longest Targeted port list that is enumerated.
MaxLen == 3
\* The value given to ScanConfig::max_concurrent_tasks.
MaxConcurrent == 2
\* Capacity of the caller's progress channel (mpsc::channel(ChanCap)).
ChanCap == 1

\* ------------------------------------------------------- program constants
\* u16: the width of port numbers and of the statistics counters.
U16 == 65536

\* Option values: None and Some(x) where the payload is a record, NoneV where it
\* is a string.
None == <<>>
Some(x) == <<x>>
NoneV == "None"
\* The result of u16 arithmetic that panicked.
Panic == 0 - 1

\* Ports a Targeted list is drawn from, and the ends a CustomRange is drawn from.
TargetPorts == {22, 80}
RangeEnds == {80, 81}

\* The outcomes of timeout(self.timeout, TcpStream::connect(addr)):
\*   connected                      Ok(Ok(stream))
\*   refused, unreachable, io_error Ok(Err(e)), by the kind of e
\*   timeout                        Err(Elapsed)
ConnResults == {"connected", "refused", "unreachable", "io_error", "timeout"}

\* ------------------------------------------------------------- port tables
\* CommonPorts::top_100: the list as the source gives it.
top_100 ==
    <<21, 22, 23, 25, 53, 80, 110, 111, 135, 139, 143, 443, 445, 993, 995,
      1723, 3306, 3389, 5900, 8080, 8443>>

\* CommonPorts::top_1000: top_100 with nothing added.
top_1000 == top_100

\* CommonPorts::all_ports: (1..=65535).collect()
all_ports == [i \in 1..65535 |-> i]

\* a..=b collected into a Vec: empty when a > b.
RangeInclusive(a, b) == IF a <= b THEN [i \in 1..(b - a + 1) |-> a + i - 1] ELSE <<>>

\* ScanType values.
Quick == [kind |-> "Quick"]
Standard == [kind |-> "Standard"]
Full == [kind |-> "Full"]
CustomRange(a, b) == [kind |-> "CustomRange", start |-> a, end_ |-> b]
Targeted(l) == [kind |-> "Targeted", ports |-> l]

\* ScanEngine::get_ports_to_scan
get_ports_to_scan(st) ==
    CASE st.kind = "Quick" -> top_100
      [] st.kind = "Standard" -> top_1000
      [] st.kind = "Full" -> all_ports
      [] st.kind = "CustomRange" -> RangeInclusive(st.start, st.end_)
      [] st.kind = "Targeted" -> st.ports

\* -------------------------------------------------------------- the probes
\* port_scanner.rs detect_service_by_port: (name, product), confidence 80 always.
PortTable(port) ==
    CASE port = 21 -> <<"ftp", "FTP">>
      [] port = 22 -> <<"ssh", "SSH">>
      [] port = 23 -> <<"telnet", "Telnet">>
      [] port = 25 -> <<"smtp", "SMTP">>
      [] port = 53 -> <<"domain", "DNS">>
      [] port = 80 -> <<"http", "HTTP">>
      [] port = 110 -> <<"pop3", "POP3">>
      [] port = 143 -> <<"imap", "IMAP">>
      [] port = 443 -> <<"https", "HTTPS">>
      [] port = 445 -> <<"microsoft-ds", "SMB">>
      [] port = 993 -> <<"imaps", "IMAPS">>
      [] port = 995 -> <<"pop3s", "POP3S">>
      [] port = 1433 -> <<"ms-sql-s", "MSSQL">>
      [] port = 3306 -> <<"mysql", "MySQL">>
      [] port = 3389 -> <<"ms-wbt-server", "RDP">>
      [] port = 5432 -> <<"postgresql", "PostgreSQL">>
      [] port = 5900 -> <<"vnc", "VNC">>
      [] port = 6379 -> <<"redis", "Redis">>
      [] port = 8080 -> <<"http-proxy", "HTTP Proxy">>
      [] port = 8443 -> <<"https-alt", "HTTPS">>
      [] port = 27017 -> <<"mongodb", "MongoDB">>
      [] OTHER -> <<"unknown", NoneV>>

detect_service_by_port(port) ==
    [name |-> PortTable(port)[1], version |-> NoneV, product |-> PortTable(port)[2],
     extra_info |-> NoneV, confidence |-> 80]

\* PortScanner::connect_with_timeout: Ok(true) on a completed handshake, Ok(false)
\* on every IO error and on the timeout. It has no Err arm.
connect_with_timeout(c) == c = "connected"

\* PortScanner::scan_port, let status = if is_open { Open } else { Closed }.
scan_port_status(c) == IF connect_with_timeout(c) THEN "Open" ELSE "Closed"

\* PortScanner::scan_port: always Ok(PortInfo). response_time is Some(elapsed)
\* whatever the result; the elapsed value itself is not modelled.
PortScanner_scan_port(port, c) ==
    LET is_open == connect_with_timeout(c)
    IN [port |-> port,
        status |-> scan_port_status(c),
        service |-> IF is_open THEN Some(detect_service_by_port(port)) ELSE None,
        banner |-> NoneV,
        response_time |-> "Some",
        protocol |-> "Tcp"]

\* SynScanner::scan_port: builds a PortScanner, takes its result and sets protocol
\* to Tcp again.
SynScanner_scan_port_marked(port, c) ==
    [PortScanner_scan_port(port, c) EXCEPT !.protocol = "Syn"]
SynScanner_scan_port(port, c) ==
    [PortScanner_scan_port(port, c) EXCEPT !.protocol = "Tcp"]

\* The scanner the engine selects: syn_scanner is Some exactly when stealth_mode.
Engine_scan_port(cfg, port, c) ==
    IF cfg.stealth_mode THEN SynScanner_scan_port(port, c)
    ELSE PortScanner_scan_port(port, c)

\* UdpScanner::send_udp_probe: it sends nothing and returns Ok(false).
send_udp_probe_responds(port) == TRUE
send_udp_probe(port) == FALSE

\* UdpScanner::probe_udp_port: the response of send_udp_probe within the timeout,
\* false when the timeout fires first (send_udp_probe has no Err result).
probe_udp_port(port, c) == IF c = "timeout" THEN FALSE ELSE send_udp_probe(port)

\* UdpScanner::scan_port
UdpScanner_scan_port(port, c) ==
    [port |-> port,
     status |-> IF probe_udp_port(port, c) THEN "Open" ELSE "Closed",
     service |-> None,
     banner |-> NoneV,
     response_time |-> NoneV,
     protocol |-> "Udp"]

\* ----------------------------------------------------------- result model
\* open_ports.push(x) followed by the stable sort_by_key(|p| p.port), on a list
\* that every earlier add_open_port left sorted: the pushed element ends after the
\* elements whose port is not greater, and the other elements keep their order.
RECURSIVE push_and_sort(_, _)
push_and_sort(s, x) ==
    IF s = <<>> \/ s[Len(s)].port <= x.port THEN Append(s, x)
    ELSE Append(push_and_sort(SubSeq(s, 1, Len(s) - 1), x), s[Len(s)])

\* add_open_port without its sort_by_key: the outcome is only pushed.
add_open_port_push_only(list, port_info) == Append(list, port_info)

\* ScanResult::add_open_port
add_open_port(list, port_info) == push_and_sort(list, port_info)

\* u16 arithmetic: a debug build panics on overflow, a release build wraps.
Wrap(x) == x % U16
Checked(b, x) == IF b = "debug" /\ (x < 0 \/ x >= U16) THEN Panic ELSE Wrap(x)

\* success_rate is an f64; the model keeps the exact quotient num/den.
Rate(open, total) ==
    IF total > 0 THEN [num |-> open * 100, den |-> total] ELSE [num |-> 0, den |-> 1]

\* The match on scan_type in ScanResult::update_statistics.
total_of(b, st) ==
    CASE st.kind = "Quick" -> 100
      [] st.kind = "Standard" -> 1000
      [] st.kind = "Full" -> 65535
      [] st.kind = "CustomRange" ->
            LET d == Checked(b, st.end_ - st.start)
            IN IF d = Panic THEN Panic ELSE Checked(b, d + 1)
      [] st.kind = "Targeted" -> Wrap(Len(st.ports))

\* ScanResult::update_statistics: Some(statistics), or None when it panicked.
update_statistics(b, st, open_list) ==
    LET total == total_of(b, st)
        open == Wrap(Len(open_list))
        closed == IF total = Panic THEN Panic ELSE Checked(b, total - open)
    IN IF closed = Panic THEN None
       ELSE Some([total_ports |-> total, open_ports |-> open, closed_ports |-> closed,
             filtered_ports |-> 0, packets_sent |-> total, packets_received |-> open,
             success_rate |-> Rate(open, total)])

\* ScanStatistics::default
DefaultStatistics ==
    [total_ports |-> 0, open_ports |-> 0, closed_ports |-> 0, filtered_ports |-> 0,
     packets_sent |-> 0, packets_received |-> 0, success_rate |-> [num |-> 0, den |-> 1]]

\* ScanResult::new
ScanResult_new(st) ==
    [scan_type |-> st, open_ports |-> <<>>, end_time |-> "created",
     statistics |-> DefaultStatistics]

\* ------------------------------------------------------------- enrichment
\* What BannerGrabber::grab_banner returns in the engine's runs: Err (no connection,
\* IO error, timeout) or Ok of a banner.
GrabOutcomes == {"Err", "SSH-2.0-OpenSSH_8.9"}

\* service_detector.rs detect_by_port: its own table, confidence 80.
DetectorTable(port) ==
    CASE port = 21 -> <<"ftp", "FTP">>
      [] port = 22 -> <<"ssh", "SSH">>
      [] port = 23 -> <<"telnet", "Telnet">>
      [] port = 25 -> <<"smtp", "SMTP">>
      [] port = 53 -> <<"dns", "DNS">>
      [] port = 80 -> <<"http", "HTTP">>
      [] port = 110 -> <<"pop3", "POP3">>
      [] port = 143 -> <<"imap", "IMAP">>
      [] port = 443 -> <<"https", "HTTPS">>
      [] port = 445 -> <<"smb", "SMB">>
      [] port = 993 -> <<"imaps", "IMAPS">>
      [] port = 995 -> <<"pop3s", "POP3S">>
      [] port = 1433 -> <<"mssql", "Microsoft SQL Server">>
      [] port = 3306 -> <<"mysql", "MySQL">>
      [] port = 3389 -> <<"rdp", "Remote Desktop">>
      [] port = 5432 -> <<"postgresql", "PostgreSQL">>
      [] port = 5900 -> <<"vnc", "VNC">>
      [] port = 6379 -> <<"redis", "Redis">>
      [] port = 8080 -> <<"http", "HTTP Proxy">>
      [] port = 8443 -> <<"https", "HTTPS Alternative">>
      [] port = 27017 -> <<"mongodb", "MongoDB">>
      [] OTHER -> <<"unknown", NoneV>>

detect_by_port(port) ==
    [name |-> DetectorTable(port)[1], version |-> NoneV, product |-> DetectorTable(port)[2],
     extra_info |-> NoneV, confidence |-> 80]

\* A banner of 120 characters with no pattern in it.
LongBanner ==
    "welcome to the gateway; welcome to the gateway; welcome to the gateway; welcome to the gateway; welcome to the gateway; "

\* What the detector's grab_banner can return: Err (no connection, IO error, either
\* timeout), an empty text, connect_and_read's "[No response]", and banners.
DetectGrabs ==
    {"Err", "", "[No response]", "SSH-2.0-OpenSSH_8.9", "220 mail ESMTP Postfix",
     "220 ProFTPD Server", "hello", LongBanner}

\* analyze_banner's test banner_lower.contains(pattern.to_lowercase()) over
\* service_patterns, for the banners of DetectGrabs: the tags with a pattern in the
\* banner ("220" is a pattern of ftp, so the Postfix greeting carries two tags).
PatternTags(banner) ==
    CASE banner = "SSH-2.0-OpenSSH_8.9" -> {"ssh"}
      [] banner = "220 mail ESMTP Postfix" -> {"ftp", "smtp"}
      [] banner = "220 ProFTPD Server" -> {"ftp"}
      [] OTHER -> {}

\* ServiceDetector::extract_version_and_product on those banners: <<version, product>>.
extract_version_and_product(banner, service) ==
    CASE service = "ssh" /\ banner = "SSH-2.0-OpenSSH_8.9" -> <<"8.9", "OpenSSH">>
      [] service = "ftp" /\ banner = "220 ProFTPD Server" -> <<NoneV, "ProFTPD">>
      [] OTHER -> <<NoneV, NoneV>>

\* banner.chars().take(n).collect()
chars_take(text, n) == IF Len(text) <= n THEN text ELSE SubSeq(text, 1, n)

\* ServiceDetector::analyze_banner. service_patterns is a HashMap, so the tag that
\* is visited first among those with a pattern in the banner is any of them; with
\* none, the port table's entry at confidence 60 with the banner in extra_info.
analyze_banner_port_only(banner, port) == {detect_by_port(port)}
analyze_banner_results(banner, port) ==
    IF PatternTags(banner) = {}
    THEN {[detect_by_port(port) EXCEPT !.confidence = 60,
                                       !.extra_info = "Banner: " \o chars_take(banner, 100)]}
    ELSE {[name |-> tag,
           version |-> extract_version_and_product(banner, tag)[1],
           product |-> extract_version_and_product(banner, tag)[2],
           extra_info |-> chars_take(banner, 100),
           confidence |-> 90] : tag \in PatternTags(banner)}

\* analyze_banner on a banner with at most one tag, as those of GrabOutcomes are.
analyze_banner(banner, port) == CHOOSE s \in analyze_banner_results(banner, port) : TRUE

\* The outcomes of grab_banner that detect_service takes for no banner.
NoBanner(g) == g \in {"Err", "", "[No response]"}

\* ServiceDetector::detect_service: g is the outcome of the detector's own
\* grab_banner; Err, "" and "[No response]" fall back to the port table.
detect_service_results(port, g) ==
    IF NoBanner(g) THEN {detect_by_port(port)} ELSE analyze_banner_results(g, port)

detect_service(port, g) ==
    IF NoBanner(g) THEN detect_by_port(port)
    ELSE analyze_banner(g, port)

\* ---------------------------------------------------------------- state
VARIABLES
    config,          \* ScanConfig of the engine
    world,           \* SpecBig: what a connection to each port gives (NoWorld in Spec)
    api,             \* the entry point that was called, NoneV before the call
    pc,              \* where the call is
    scan_type,       \* the ScanType argument, None before the call
    ports,           \* the materialized port list
    task,            \* per position of ports: the state of its probe
    tresult,         \* per position of ports: the PortInfo its probe returned, None before
    permits,         \* free permits of the semaphore
    lock_holder,     \* the task holding progress_tx's write lock, 0 when free
    completed,       \* the counter of scan_ports_with_progress
    chan,            \* snapshots queued in the progress channel
    rx_state,        \* the progress receiver: "open" or "closed"
    open_ports,      \* the Vec the probe loop collects into
    enh_queue,       \* enhance_scan_results: port_infos still to enhance
    enh_stage,       \* enhance_scan_results: next step for the head of enh_queue
    enhanced,        \* enhance_scan_results' output, then the add loop's input
    scan_result,     \* the ScanResult, None before ScanResult::new
    finalize_calls,  \* how often ScanResult::finalize was entered
    send_buf,        \* the snapshot of the task waiting in tx.send, None without one
    dropped_after,   \* probes dispatched when the call's future was dropped, -1 if it was not
    db,              \* the rows of the scans that ScanRepository::save_scan has written
    loaded,          \* what get_scan and get_scan_ports read back, <<>> before the read
    request,         \* the request a front end or a utility received, <<>> before it
    response,        \* what the front end's validation answered, <<>> before it
    clock,           \* the refill periods of 1/rate_limit seconds that have passed
    grab,            \* one call of BannerGrabber::grab_banner: position, open sockets, result
    limiter          \* the web RateLimiter: its requests map, its callers, the time

vars == <<config, world, api, pc, scan_type, ports, task, tresult, permits, lock_holder,
          completed, chan, rx_state, open_ports, enh_queue, enh_stage, enhanced,
          scan_result, finalize_calls, send_buf, dropped_after, db, loaded,
          request, response, clock, grab, limiter>>

\* The state outside the engine: no engine step touches it.
others == <<db, loaded, request, response, clock, grab, limiter>>

Builds == {"debug", "release"}

RECURSIVE SeqsUpTo(_, _)
SeqsUpTo(S, n) == IF n = 0 THEN {<<>>} ELSE SeqsUpTo(S, n - 1) \cup [1..n -> S]

\* The scan modes that are stepped through probe by probe.
ScanTypes ==
    {Targeted(l) : l \in SeqsUpTo(TargetPorts, MaxLen)}
        \cup {CustomRange(a, b) : a \in RangeEnds, b \in RangeEnds}

\* ScanConfig. enable_os_detection keeps its default, false.
Configs ==
    [max_concurrent_tasks : {MaxConcurrent},
     stealth_mode : BOOLEAN,
     enable_service_detection : BOOLEAN,
     enable_banner_grabbing : BOOLEAN,
     enable_os_detection : {FALSE},
     rate_limit : {None}]

\* RateLimiter::new(window, max_requests): the window in clock ticks and the limit.
Window == 2
MaxRequests == 2

\* The identifiers that are limited and the threads that call the limiter.
Identifiers == {"10.0.0.1", "key-7"}
Threads == {1, 2}

\* A thread outside check_rate_limit; result is what its last call returned.
Outside(result) == [at |-> "outside", identifier |-> NoneV, now |-> 0, result |-> result]

\* RateLimiter::new: an empty map. admitted is the history of the timestamps of
\* the calls that returned Ok, per identifier, which the limiter does not keep;
\* stale tells whether a call got the lock after the clock had left the instant
\* it read.
RateLimiter_new ==
    [requests |-> <<>>,
     admitted |-> [id \in Identifiers |-> <<>>],
     now |-> 0,
     calls |-> [t \in Threads |-> Outside(NoneV)],
     stale |-> FALSE]

\* The variables before a call, whatever the engine's config and the target.
Idle ==
    /\ api = NoneV
    /\ pc = "idle"
    /\ scan_type = None
    /\ ports = <<>>
    /\ task = <<>>
    /\ tresult = <<>>
    /\ permits = 0
    /\ lock_holder = 0
    /\ completed = 0
    /\ chan = <<>>
    /\ rx_state = "open"
    /\ open_ports = <<>>
    /\ enh_queue = <<>>
    /\ enh_stage = "service"
    /\ enhanced = <<>>
    /\ scan_result = None
    /\ finalize_calls = 0
    /\ send_buf = None
    /\ dropped_after = -1
    /\ db = <<>>
    /\ loaded = <<>>
    /\ request = <<>>
    /\ response = <<>>
    /\ clock = 0
    /\ grab = [at |-> "idle", port |-> 0, sockets |-> {}, result |-> NoneV]
    /\ limiter = RateLimiter_new

NoWorld == <<>>

Init ==
    /\ config \in Configs
    /\ world = NoWorld
    /\ Idle

\* Semaphore::new(n) and buffer_unordered(n): both take max_concurrent_tasks
\* (PortScanner's max_concurrent is set from it in ScanEngine::new).
InFlightLimit_plus_one == config.max_concurrent_tasks + 1
InFlightLimit == config.max_concurrent_tasks

\* The futures buffer_unordered holds.
InBuffer == Cardinality({i \in DOMAIN task : task[i] \in {"acquire", "probing", "sending"}})

\* The probes that have entered scan_port and not returned from it.
InFlight == Cardinality({i \in DOMAIN task : task[i] = "probing"})

Pending == {i \in DOMAIN task : task[i] = "pending"}
Dispatched == Cardinality(DOMAIN task \ Pending)

\* buffer_unordered pulls the next future whenever it holds fewer than its limit,
\* before it polls the futures it holds.
CanDispatch ==
    /\ pc = "scanning"
    /\ api \in {"scan_with_progress", "scan_ports"}
    /\ Pending # {}
    /\ InBuffer < InFlightLimit

\* The call starts: target.parse(), ScanResult::new, get_ports_to_scan.
Begin(a, st, with_result) ==
    LET ps == get_ports_to_scan(st)
    IN /\ api' = a
       /\ scan_type' = st
       /\ ports' = ps
       /\ task' = [i \in 1..Len(ps) |-> "pending"]
       /\ tresult' = [i \in 1..Len(ps) |-> None]
       /\ scan_result' = IF with_result THEN ScanResult_new(st) ELSE None
       /\ permits' = IF a = "scan" THEN 0 ELSE InFlightLimit
       /\ pc' = "scanning"
       /\ UNCHANGED <<others, config, world, lock_holder, completed, chan, rx_state, open_ports, enh_queue,
                      enh_stage, enhanced, finalize_calls, send_buf, dropped_after>>

\* target.parse() fails: Err(TargetResolution).
FailTarget(a) ==
    /\ api' = a
    /\ pc' = "failed"
    /\ UNCHANGED <<others, config, world, scan_type, ports, task, tresult, permits, lock_holder, completed,
                   chan, rx_state, open_ports, enh_queue, enh_stage, enhanced, scan_result,
                   finalize_calls, send_buf, dropped_after>>

\* ScanEngine::scan is called.
StartScan ==
    /\ pc = "idle"
    /\ \E target_ok \in BOOLEAN, st \in ScanTypes :
          IF target_ok THEN Begin("scan", st, TRUE) ELSE FailTarget("scan")

\* ScanEngine::scan_with_progress is called.
StartScanWithProgress ==
    /\ pc = "idle"
    /\ \E target_ok \in BOOLEAN, st \in ScanTypes :
          IF target_ok THEN Begin("scan_with_progress", st, TRUE)
          ELSE FailTarget("scan_with_progress")

\* PortScanner::scan_ports is called with a port list.
StartScanPorts ==
    /\ pc = "idle"
    /\ \E l \in SeqsUpTo(TargetPorts, MaxLen) : Begin("scan_ports", Targeted(l), FALSE)

\* ------------------------------------------------- the sequential probe loop
\* The loop of ScanEngine::scan_ports keeps an Ok(port_info) when it is Open; the
\* collection loop of scan_ports_with_progress does the same.
collect(list, r) == IF r.status = "Open" THEN Append(list, r) ELSE list

\* Where the loops go after a result: no arm of their match returns or breaks,
\* so the call stays in its loop whatever the result.
after_result_abort(r) == IF r.status = "Open" THEN "scanning" ELSE "failed"
after_result(r) == "scanning"

\* scan_ports: the loop calls scanner.scan_port for the next port.
SeqScanPort ==
    /\ api = "scan"
    /\ pc = "scanning"
    /\ \E i \in Pending :
          /\ \A j \in DOMAIN task : j < i => task[j] = "collected"
          /\ task' = [task EXCEPT ![i] = "probing"]
    /\ UNCHANGED <<others, config, world, api, pc, scan_type, ports, tresult, permits, lock_holder, completed,
                   chan, rx_state, open_ports, enh_queue, enh_stage, enhanced, scan_result,
                   finalize_calls, send_buf, dropped_after>>

\* scan_ports: scan_port returns and the loop body runs.
SeqScanPortDone ==
    /\ api = "scan"
    /\ pc = "scanning"
    /\ \E i \in DOMAIN task, c \in ConnResults :
          /\ task[i] = "probing"
          /\ task' = [task EXCEPT ![i] = "collected"]
          /\ LET r == Engine_scan_port(config, ports[i], c)
             IN /\ open_ports' = collect(open_ports, r)
                /\ tresult' = [tresult EXCEPT ![i] = r]
                /\ pc' = after_result(r)
    /\ UNCHANGED <<others, config, world, api, scan_type, ports, permits, lock_holder, completed, chan,
                   rx_state, enh_queue, enh_stage, enhanced, scan_result, finalize_calls,
                   send_buf, dropped_after>>

\* ---------------------------------------------- the bounded-concurrency stream
\* buffer_unordered pulls the next future and polls it: semaphore.acquire() gives
\* a permit at once when one is free, and the future enters scan_port.
Dispatch ==
    /\ CanDispatch
    /\ LET i == CHOOSE k \in Pending : \A j \in Pending : k <= j
       IN IF permits > 0
          THEN /\ permits' = permits - 1
               /\ task' = [task EXCEPT ![i] = "probing"]
          ELSE /\ permits' = permits
               /\ task' = [task EXCEPT ![i] = "acquire"]
    /\ UNCHANGED <<others, config, world, api, pc, scan_type, ports, tresult, lock_holder, completed, chan,
                   rx_state, open_ports, enh_queue, enh_stage, enhanced, scan_result,
                   finalize_calls, send_buf, dropped_after>>

\* The future of task i ends: _permit is dropped, stream.next() yields its result
\* and the collection loop runs on it.
FinishTask(i, r) ==
    /\ permits' = permits + 1
    /\ task' = [task EXCEPT ![i] = "collected"]
    /\ open_ports' = IF api = "scan_ports" THEN Append(open_ports, r) ELSE collect(open_ports, r)
    /\ pc' = after_result(r)

\* A future waiting in semaphore.acquire() gets its permit.
AcquirePermit(i) ==
    /\ permits > 0
    /\ permits' = permits - 1
    /\ task' = [task EXCEPT ![i] = "probing"]
    /\ UNCHANGED <<pc, tresult, lock_holder, completed, chan, open_ports, send_buf>>

\* PortScanner::scan_ports: scan_port returns, the future ends.
ScannerProbeDone(i, c) ==
    LET r == PortScanner_scan_port(ports[i], c)
    IN /\ FinishTask(i, r)
       /\ tresult' = [tresult EXCEPT ![i] = r]
       /\ UNCHANGED <<lock_holder, completed, chan, send_buf>>

\* The ScanProgress a task builds (percentage and the two durations follow from
\* these fields and the clock).
Snapshot(i, n) ==
    [current_port |-> ports[i], total_ports |-> Wrap(Len(ports)), completed |-> n,
     open_ports_found |-> Wrap(Len(open_ports))]

\* scan_ports_with_progress: scan_port returns; completed += 1; the snapshot is
\* built; progress_tx.try_write() and, with the lock, tx.send(progress).await:
\* Err at once when the receiver is gone, queued when the channel has room, and
\* otherwise the task waits in send, holding the write lock. Without the lock the
\* snapshot is dropped. result_tx's receiver was dropped at its creation, so
\* result_tx.send returns Err at once.
ProbeDone(i, c) ==
    LET r == Engine_scan_port(config, ports[i], c)
        n == Wrap(completed + 1)
    IN /\ tresult' = [tresult EXCEPT ![i] = r]
       /\ completed' = n
       /\ IF lock_holder = 0 /\ rx_state = "open" /\ Len(chan) >= ChanCap
          THEN /\ task' = [task EXCEPT ![i] = "sending"]
               /\ lock_holder' = i
               /\ send_buf' = Snapshot(i, n)
               /\ UNCHANGED <<pc, permits, open_ports, chan>>
          ELSE /\ chan' = IF lock_holder = 0 /\ rx_state = "open"
                          THEN Append(chan, Snapshot(i, n)) ELSE chan
               /\ FinishTask(i, r)
               /\ UNCHANGED <<lock_holder, send_buf>>

\* tx.send completes: the channel got room, or the receiver was dropped.
SendResume(i) ==
    /\ rx_state = "closed" \/ Len(chan) < ChanCap
    /\ chan' = IF rx_state = "open" THEN Append(chan, send_buf) ELSE chan
    /\ lock_holder' = 0
    /\ send_buf' = None
    /\ FinishTask(i, tresult[i])
    /\ UNCHANGED <<tresult, completed>>

\* One future of the stream is polled and gets further.
TaskPoll ==
    /\ pc = "scanning"
    /\ api \in {"scan_with_progress", "scan_ports"}
    /\ ~CanDispatch
    /\ \E i \in DOMAIN task, c \in ConnResults :
          CASE task[i] = "acquire" -> AcquirePermit(i)
            [] task[i] = "probing" /\ api = "scan_ports" -> ScannerProbeDone(i, c)
            [] task[i] = "probing" /\ api = "scan_with_progress" -> ProbeDone(i, c)
            [] task[i] = "sending" -> SendResume(i)
            [] OTHER -> FALSE
    /\ UNCHANGED <<others, config, world, api, scan_type, ports, rx_state, enh_queue, enh_stage,
                   enhanced, scan_result, finalize_calls, dropped_after>>

\* The consumer of the progress channel reads one snapshot.
Recv ==
    /\ api = "scan_with_progress"
    /\ pc = "scanning"
    /\ rx_state = "open"
    /\ chan # <<>>
    /\ chan' = Tail(chan)
    /\ UNCHANGED <<others, config, world, api, pc, scan_type, ports, task, tresult, permits, lock_holder,
                   completed, rx_state, open_ports, enh_queue, enh_stage, enhanced,
                   scan_result, finalize_calls, send_buf, dropped_after>>

\* The consumer drops the receiver.
RxClose ==
    /\ api = "scan_with_progress"
    /\ pc = "scanning"
    /\ rx_state = "open"
    /\ rx_state' = "closed"
    /\ chan' = <<>>
    /\ UNCHANGED <<others, config, world, api, pc, scan_type, ports, task, tresult, permits, lock_holder,
                   completed, open_ports, enh_queue, enh_stage, enhanced, scan_result,
                   finalize_calls, send_buf, dropped_after>>

\* PortScanner::scan_ports returns Ok(results).
ScannerReturn ==
    /\ api = "scan_ports"
    /\ pc = "scanning"
    /\ \A i \in DOMAIN task : task[i] = "collected"
    /\ pc' = "returned"
    /\ UNCHANGED <<others, config, world, api, scan_type, ports, task, tresult, permits, lock_holder,
                   completed, chan, rx_state, open_ports, enh_queue, enh_stage, enhanced,
                   scan_result, finalize_calls, send_buf, dropped_after>>

\* ------------------------------------------- enhance, add, finalize, return
Enhancing == config.enable_service_detection \/ config.enable_banner_grabbing
FirstStage == IF config.enable_service_detection THEN "service" ELSE "banner"

\* scan_ports / scan_ports_with_progress returns Ok(open_ports): its semaphore and
\* counter go out of scope and open_ports is moved into enhance_scan_results,
\* which with both toggles off returns its input.
ScanPortsReturn ==
    /\ api \in {"scan", "scan_with_progress"}
    /\ pc = "scanning"
    /\ \A i \in DOMAIN task : task[i] = "collected"
    /\ IF Enhancing /\ open_ports # <<>>
       THEN /\ pc' = "enhancing"
            /\ enh_queue' = open_ports
            /\ enhanced' = <<>>
       ELSE /\ pc' = "adding"
            /\ enh_queue' = <<>>
            /\ enhanced' = open_ports
    /\ enh_stage' = FirstStage
    /\ open_ports' = <<>>
    /\ permits' = 0
    /\ completed' = 0
    /\ UNCHANGED <<others, config, world, api, scan_type, ports, task, tresult, lock_holder, chan, rx_state,
                   scan_result, finalize_calls, send_buf, dropped_after>>

\* enhanced_ports.push(port_info), and the loop goes to the next port_info.
EnhancePush(port_info) ==
    /\ enhanced' = Append(enhanced, port_info)
    /\ enh_queue' = Tail(enh_queue)
    /\ enh_stage' = FirstStage
    /\ pc' = IF Tail(enh_queue) = <<>> THEN "adding" ELSE "enhancing"

\* if let Ok(service) = detect_service(..) { port_info.service = Some(service) }:
\* detect_service has no Err result; g is what its own banner grab gave.
with_service_keeps_banner(port_info, g) ==
    [port_info EXCEPT !.service = Some(detect_service(port_info.port, g)),
                      !.banner = IF g = "Err" THEN @ ELSE g]
with_service(port_info, g) ==
    [port_info EXCEPT !.service = Some(detect_service(port_info.port, g))]

\* if let Ok(banner) = grab_banner(..) { port_info.banner = Some(banner) }
with_banner(port_info, g) ==
    IF g = "Err" THEN port_info ELSE [port_info EXCEPT !.banner = g]

\* enhance_scan_results: detect_service returns for the head port_info.
EnhanceService ==
    /\ pc = "enhancing"
    /\ enh_stage = "service"
    /\ \E g \in GrabOutcomes :
          LET cur == with_service(Head(enh_queue), g)
          IN IF config.enable_banner_grabbing
             THEN /\ enh_queue' = <<cur>> \o Tail(enh_queue)
                  /\ enh_stage' = "banner"
                  /\ UNCHANGED <<pc, enhanced>>
             ELSE EnhancePush(cur)
    /\ UNCHANGED <<others, config, world, api, scan_type, ports, task, tresult, permits, lock_holder,
                   completed, chan, rx_state, open_ports, scan_result, finalize_calls,
                   send_buf, dropped_after>>

\* enhance_scan_results: grab_banner returns for the head port_info.
EnhanceBanner ==
    /\ pc = "enhancing"
    /\ enh_stage = "banner"
    /\ \E g \in GrabOutcomes :
          EnhancePush(with_banner(Head(enh_queue), g))
    /\ UNCHANGED <<others, config, world, api, scan_type, ports, task, tresult, permits, lock_holder,
                   completed, chan, rx_state, open_ports, scan_result, finalize_calls,
                   send_buf, dropped_after>>

\* for port_info in enhanced_ports { scan_result.add_open_port(port_info) }, the
\* loop taken by halves: the first half's list is a value before the second half
\* starts from it.
RECURSIVE add_all(_, _)
add_all(list, port_infos) ==
    IF Len(port_infos) = 0 THEN list
    ELSE IF Len(port_infos) = 1 THEN add_open_port(list, port_infos[1])
    ELSE LET h == Len(port_infos) \div 2
             first == add_all(list, SubSeq(port_infos, 1, h))
         IN IF Len(first) = 0 THEN first
            ELSE add_all(first, SubSeq(port_infos, h + 1, Len(port_infos)))

\* The add loop: it has no await, so it runs as one step.
AddOpenPorts ==
    /\ pc = "adding"
    /\ scan_result' = [scan_result EXCEPT !.open_ports = add_all(@, enhanced)]
    /\ enhanced' = <<>>
    /\ pc' = "finalizing"
    /\ UNCHANGED <<others, config, world, api, scan_type, ports, task, tresult, permits, lock_holder,
                   completed, chan, rx_state, open_ports, enh_queue, enh_stage,
                   finalize_calls, send_buf, dropped_after>>

\* finalize() is called after the add loop.
ReadyToFinalize_early == pc \in {"adding", "finalizing"}
ReadyToFinalize == pc = "finalizing"

\* scan_result.finalize() and Ok(scan_result): end_time is set, update_statistics
\* runs; the build decides whether u16 overflow panics or wraps.
Finalize ==
    /\ ReadyToFinalize
    /\ finalize_calls' = finalize_calls + 1
    /\ \E b \in Builds :
          LET stats == update_statistics(b, scan_result.scan_type, scan_result.open_ports)
          IN IF stats = None
             THEN /\ pc' = "panicked"
                  /\ scan_result' = [scan_result EXCEPT !.end_time = "finalized"]
             ELSE /\ pc' = "returned"
                  /\ scan_result' = [scan_result EXCEPT !.end_time = "finalized",
                                                        !.statistics = stats[1]]
    /\ UNCHANGED <<others, config, world, api, scan_type, ports, task, tresult, permits, lock_holder,
                   completed, chan, rx_state, open_ports, enh_queue, enh_stage, enhanced,
                   send_buf, dropped_after>>

\* The caller drops the future of the call while it is suspended in an await
\* (the engine has no cancel signal: this is the only way to stop a scan). The
\* futures of the stream are dropped with it; nothing after the await runs.
Suspended ==
    \/ pc = "enhancing"
    \/ pc = "scanning" /\ \E i \in DOMAIN task : task[i] \in {"acquire", "probing", "sending"}

DropFuture ==
    /\ Suspended
    /\ pc' = "dropped"
    /\ dropped_after' = Dispatched
    /\ task' = [i \in DOMAIN task |->
                    IF task[i] \in {"acquire", "probing", "sending"} THEN "dropped" ELSE task[i]]
    /\ lock_holder' = 0
    /\ send_buf' = None
    /\ UNCHANGED <<others, config, world, api, scan_type, ports, tresult, permits, completed, chan, rx_state,
                   open_ports, enh_queue, enh_stage, enhanced, scan_result, finalize_calls>>

Next ==
    \/ StartScan
    \/ StartScanWithProgress
    \/ StartScanPorts
    \/ SeqScanPort
    \/ SeqScanPortDone
    \/ Dispatch
    \/ TaskPoll
    \/ Recv
    \/ RxClose
    \/ ScannerReturn
    \/ ScanPortsReturn
    \/ EnhanceService
    \/ EnhanceBanner
    \/ AddOpenPorts
    \/ Finalize
    \/ DropFuture

Spec == Init /\ [][Next]_vars

\* ------------------------------------------------ the call that is awaited
\* The caller keeps awaiting the future of ScanEngine::scan or of
\* PortScanner::scan_ports, so it is never dropped. The runtime polls a future
\* that can make progress, and every await of the path is a connect or a read
\* under tokio::time::timeout (connect_with_timeout, grab_banner, detect_service)
\* or the acquire of a permit that a finished task gives back: a step that stays
\* possible is taken.
NextAwaited ==
    \/ StartScan
    \/ StartScanPorts
    \/ SeqScanPort
    \/ SeqScanPortDone
    \/ Dispatch
    \/ TaskPoll
    \/ ScannerReturn
    \/ ScanPortsReturn
    \/ EnhanceService
    \/ EnhanceBanner
    \/ AddOpenPorts
    \/ Finalize

SpecAwaited == Init /\ [][NextAwaited]_vars /\ WF_vars(NextAwaited)

\* ------------------------------------------------------ the engine in time
\* The refill periods a run is followed for.
MaxClock == 1

\* ScanConfig::rate_limit of the runs in time: Some(RateLimit) probes per second.
RateLimit == 1
RateConfigs == {[c EXCEPT !.rate_limit = Some(RateLimit)] : c \in Configs}

InitRate ==
    /\ config \in RateConfigs
    /\ world = NoWorld
    /\ Idle

\* 1/rate_limit seconds pass. No step of the engine waits for it: the engine has
\* no timer but the probes' timeouts.
Tick ==
    /\ clock < MaxClock
    /\ clock' = clock + 1
    /\ UNCHANGED <<config, world, api, pc, scan_type, ports, task, tresult, permits, lock_holder,
                   completed, chan, rx_state, open_ports, enh_queue, enh_stage, enhanced,
                   scan_result, finalize_calls, send_buf, dropped_after, db, loaded,
                   request, response, grab, limiter>>

NextRate == Next \/ Tick

SpecRate == InitRate /\ [][NextRate]_vars

\* ---------------------------------------------------- scan as one step
\* Ports that may accept a connection in SpecBig; every other port refuses.
Listeners == {22, 80}
Worlds == [Listeners -> {"connected", "refused", "timeout"}]
ConnOf(w, port) == IF port \in DOMAIN w THEN w[port] ELSE "refused"

\* The scan modes of SpecBig: the fixed lists, the ranges at the ends of u16,
\* reversed ranges, and two short lists.
BigScanTypes ==
    {Quick, Standard, Full,
     CustomRange(0, 65535), CustomRange(22, 80),
     CustomRange(81, 80), CustomRange(1, 0),
     Targeted(<<80, 22>>), Targeted(<<80, 80>>)}

\* A Targeted list as long as u16 has values, one port repeated. It is scanned
\* with stealth and enrichment off.
WideList == Targeted([i \in 1..U16 |-> 80])
ScanTypesOf(cfg) ==
    IF cfg.stealth_mode \/ cfg.enable_service_detection \/ cfg.enable_banner_grabbing
    THEN BigScanTypes ELSE BigScanTypes \cup {WideList}

\* ScanEngine::scan_ports on a world: the probes run in list order and the loop
\* keeps the results whose status is Open (the status either scanner reports is
\* that of PortScanner::scan_port).
scan_ports(cfg, w, ps) ==
    LET open == SelectSeq(ps, LAMBDA p : scan_port_status(ConnOf(w, p)) = "Open")
    IN [i \in 1..Len(open) |-> Engine_scan_port(cfg, open[i], ConnOf(w, open[i]))]

\* What the two grabs of enhance_scan_results can give for n port_infos; with both
\* toggles off there is no grab.
GrabPlans(cfg, n) ==
    IF cfg.enable_service_detection \/ cfg.enable_banner_grabbing
    THEN [1..n -> (IF cfg.enable_service_detection THEN GrabOutcomes ELSE {"Err"})
                    \X (IF cfg.enable_banner_grabbing THEN GrabOutcomes ELSE {"Err"})]
    ELSE {<<>>}

\* ScanEngine::enhance_scan_results under a plan of grab outcomes; without a grab
\* the loop pushes every port_info as it came.
enhance_scan_results(cfg, port_infos, plan) ==
    IF plan = <<>> THEN port_infos
    ELSE [i \in 1..Len(port_infos) |->
            LET a == IF cfg.enable_service_detection
                     THEN with_service(port_infos[i], plan[i][1]) ELSE port_infos[i]
            IN IF cfg.enable_banner_grabbing THEN with_banner(a, plan[i][2]) ELSE a]

\* ScanEngine::scan at finalize, with the list the add loop built:
\* Some(scan_result), or None when update_statistics panicked.
scan_finish(st, added, b) ==
    LET stats == update_statistics(b, st, added)
    IN IF stats = None THEN None
       ELSE Some([scan_type |-> st, open_ports |-> added, end_time |-> "finalized",
                  statistics |-> stats[1]])

InitBig ==
    /\ config \in Configs
    /\ world \in Worlds
    /\ Idle

\* ScanEngine::scan is called on a target that parses, with a scan mode of types,
\* and runs to its end.
ScanStep(types) ==
    /\ pc = "idle"
    /\ \E st \in types :
       \E found \in {scan_ports(config, world, get_ports_to_scan(st))} :
       \E plan \in GrabPlans(config, Len(found)) :
       \E added \in {add_all(<<>>, enhance_scan_results(config, found, plan))} :
       \E b \in Builds :
                LET r == scan_finish(st, added, b)
                IN /\ api' = "scan"
                   /\ scan_type' = st
                   /\ finalize_calls' = 1
                   /\ IF r = None
                      THEN /\ pc' = "panicked"
                           /\ UNCHANGED scan_result
                      ELSE /\ pc' = "returned"
                           /\ scan_result' = r[1]
    /\ UNCHANGED <<others, config, world, ports, task, tresult, permits, lock_holder, completed, chan,
                   rx_state, open_ports, enh_queue, enh_stage, enhanced, send_buf,
                   dropped_after>>

ScanBig == ScanStep(ScanTypesOf(config))

NextBig == ScanBig

SpecBig == InitBig /\ [][NextBig]_vars

\* ------------------------------------------------- the repository of scans
\* scan_type_to_string. format!("custom_{}_{}", start, end) keeps its pieces apart:
\* the literal parts and the two numbers.
scan_type_to_string(st) ==
    CASE st.kind = "Quick" -> <<"quick">>
      [] st.kind = "Standard" -> <<"standard">>
      [] st.kind = "Full" -> <<"full">>
      [] st.kind = "CustomRange" -> <<"custom_", st.start, "_", st.end_>>
      [] st.kind = "Targeted" -> <<"targeted">>

port_status_to_string(status) ==
    CASE status = "Open" -> "open"
      [] status = "Closed" -> "closed"
      [] status = "Filtered" -> "filtered"
      [] status = "OpenFiltered" -> "open_filtered"
      [] status = "Unknown" -> "unknown"

protocol_to_string(protocol) ==
    CASE protocol = "Tcp" -> "tcp"
      [] protocol = "Udp" -> "udp"
      [] protocol = "Sctp" -> "sctp"

\* ScanRepository::insert_port_info: the row of one PortInfo. Of the service it
\* binds name, version and product.
insert_port_info(port_info) ==
    [port |-> port_info.port,
     status |-> port_status_to_string(port_info.status),
     service_name |-> IF port_info.service = None THEN NoneV ELSE port_info.service[1].name,
     service_version |-> IF port_info.service = None THEN NoneV ELSE port_info.service[1].version,
     service_product |-> IF port_info.service = None THEN NoneV ELSE port_info.service[1].product,
     banner |-> port_info.banner,
     response_time_ms |-> port_info.response_time,
     protocol |-> protocol_to_string(port_info.protocol)]

\* ScanRepository::insert_scan_statistics: the row of the statistics.
insert_scan_statistics(stats) ==
    [packets_sent |-> stats.packets_sent, packets_received |-> stats.packets_received,
     success_rate |-> stats.success_rate]

\* ScanRepository::save_scan: the rows one ScanResult leaves in scans, scan_ports
\* and scan_statistics.
save_scan(r) ==
    [scan |-> [scan_type |-> scan_type_to_string(r.scan_type),
               total_ports |-> r.statistics.total_ports,
               open_ports |-> Len(r.open_ports),
               status |-> "completed"],
     ports |-> [i \in 1..Len(r.open_ports) |-> insert_port_info(r.open_ports[i])],
     statistics |-> insert_scan_statistics(r.statistics)]

\* ORDER BY port of get_scan_ports.
RECURSIVE order_by_port(_)
order_by_port(rows) ==
    IF rows = <<>> THEN <<>>
    ELSE LET rest == order_by_port(Tail(rows))
             before == SelectSeq(rest, LAMBDA x : x.port < Head(rows).port)
             after == SelectSeq(rest, LAMBDA x : x.port >= Head(rows).port)
         IN before \o <<Head(rows)>> \o after

\* The scan modes whose results are stored.
StoreScanTypes ==
    {Quick, CustomRange(22, 80), CustomRange(80, 81),
     Targeted(<<22>>), Targeted(<<80>>), Targeted(<<22, 80>>)}

InitStore ==
    /\ config \in Configs
    /\ world \in Worlds
    /\ Idle

\* main.rs execute_scan: engine.scan, then repository.save_scan on its result.
ScanStored == ScanStep(StoreScanTypes)

SaveScan ==
    /\ api = "scan"
    /\ pc = "returned"
    /\ db' = Append(db, save_scan(scan_result))
    /\ pc' = "saved"
    /\ UNCHANGED <<config, world, api, scan_type, ports, task, tresult, permits, lock_holder,
                   completed, chan, rx_state, open_ports, enh_queue, enh_stage, enhanced,
                   scan_result, finalize_calls, send_buf, dropped_after, loaded,
                   request, response, clock, grab, limiter>>

\* ScanRepository::get_scan and get_scan_ports on the scan that was saved: the
\* ScanRecord and the ScanPortRecords, as stored.
GetScan ==
    /\ pc = "saved"
    /\ loaded' = <<[scan |-> db[Len(db)].scan, ports |-> order_by_port(db[Len(db)].ports)]>>
    /\ pc' = "loaded"
    /\ UNCHANGED <<config, world, api, scan_type, ports, task, tresult, permits, lock_holder,
                   completed, chan, rx_state, open_ports, enh_queue, enh_stage, enhanced,
                   scan_result, finalize_calls, send_buf, dropped_after, db,
                   request, response, clock, grab, limiter>>

NextStore == ScanStored \/ SaveScan \/ GetScan

SpecStore == InitStore /\ [][NextStore]_vars

\* ------------------------------------------------------- the front ends
\* The targets of the requests: two addresses, a hostname, a hostname with an
\* empty label, and the empty text.
Targets == {"10.0.0.1", "10.0.0.2", "scanme.example", "bad..host", ""}

\* target.parse::<IpAddr>(): Some(address) or None.
parse_ip(target) ==
    CASE target = "10.0.0.1" -> Some(<<10, 0, 0, 1>>)
      [] target = "10.0.0.2" -> Some(<<10, 0, 0, 2>>)
      [] OTHER -> None

\* security.allowed_targets: empty, one address, two addresses.
AllowLists == {{}, {<<10, 0, 0, 1>>}, {<<10, 0, 0, 1>>, <<10, 0, 0, 3>>}}

\* Settings::is_target_allowed: no restriction with an empty list, membership for
\* an address, and true for every target that is not an address.
is_target_allowed(allowed_targets, target) ==
    IF allowed_targets = {} THEN TRUE
    ELSE IF parse_ip(target) # None THEN parse_ip(target)[1] \in allowed_targets
    ELSE TRUE

\* validate_target's hostname test on the targets that are no address: at most 253
\* characters, and no label of target.split('.') empty or longer than 63.
hostname_format_ok(target) == Len(target) <= 253 /\ target # "bad..host"

\* ApiServer::validate_target: "Ok" or the error's variant.
validate_target(allowed_targets, target) ==
    IF target = "" THEN "Validation"
    ELSE IF ~is_target_allowed(allowed_targets, target) THEN "Security"
    ELSE IF parse_ip(target) = None /\ ~hostname_format_ok(target) THEN "Validation"
    ELSE "Ok"

\* ScanTypeDto values of the requests, and ApiServer::convert_scan_type: Some(scan
\* type) or None for Err(Validation).
ScanTypeDtos ==
    {[kind |-> "Quick"], [kind |-> "Custom", start_port |-> 22, end_port |-> 80],
     [kind |-> "Custom", start_port |-> 81, end_port |-> 80]}
convert_scan_type(dto) ==
    CASE dto.kind = "Quick" -> Some(Quick)
      [] dto.kind = "Standard" -> Some(Standard)
      [] dto.kind = "Full" -> Some(Full)
      [] dto.kind = "Custom" ->
            IF dto.start_port > dto.end_port THEN None
            ELSE Some(CustomRange(dto.start_port, dto.end_port))

\* ScanArgs of the command line: scan_type and port_range are options; a
\* PortRange that PortRange::from_str accepted has start <= end.
PortRanges == {None, Some([start |-> 22, end_ |-> 80])}
CliScanTypes == {None, Some(Quick)}
MaxPortsPerScan == {10, 65535}

\* validate_scan_parameters: "Ok" or the error's variant.
validate_scan_parameters(allowed_targets, max_ports_per_scan, target, port_range) ==
    IF parse_ip(target) = None THEN "Validation"
    ELSE IF ~is_target_allowed(allowed_targets, target) THEN "Security"
    ELSE IF port_range # None /\ port_range[1].start > port_range[1].end_ THEN "Validation"
    ELSE IF port_range # None
            /\ (port_range[1].end_ - port_range[1].start) + 1 > max_ports_per_scan
    THEN "Validation"
    ELSE "Ok"

\* The match of execute_scan on (scan_type, port_range).
cli_scan_type(st, port_range) ==
    IF st # None THEN st[1]
    ELSE IF port_range # None THEN CustomRange(port_range[1].start, port_range[1].end_)
    ELSE Standard

InitFront ==
    /\ config \in Configs
    /\ world \in Worlds
    /\ Idle

\* execute_scan up to its call of the engine: validate_scan_parameters, then the
\* scan type.
ExecuteScan ==
    /\ pc = "idle"
    /\ request = <<>>
    /\ \E target \in Targets, allowed \in AllowLists, st \in CliScanTypes,
          range \in PortRanges, max \in MaxPortsPerScan :
          \E v \in {validate_scan_parameters(allowed, max, target, range)} :
             /\ request' = <<[entry |-> "execute_scan", target |-> target,
                              allowed_targets |-> allowed]>>
             /\ response' = <<[error |-> v,
                               scan_type |-> IF v = "Ok" THEN Some(cli_scan_type(st, range))
                                             ELSE None]>>
    /\ UNCHANGED <<config, world, api, pc, scan_type, ports, task, tresult, permits, lock_holder,
                   completed, chan, rx_state, open_ports, enh_queue, enh_stage, enhanced,
                   scan_result, finalize_calls, send_buf, dropped_after, db, loaded, clock,
                   grab, limiter>>

\* ApiServer::handle_start_scan up to the task it spawns: validate_target, then
\* convert_scan_type.
HandleStartScan ==
    /\ pc = "idle"
    /\ request = <<>>
    /\ \E target \in Targets, allowed \in AllowLists, dto \in ScanTypeDtos :
          \E v \in {validate_target(allowed, target)} :
             /\ request' = <<[entry |-> "handle_start_scan", target |-> target,
                              allowed_targets |-> allowed]>>
             /\ response' = <<[error |-> IF v = "Ok" /\ convert_scan_type(dto) = None
                                          THEN "Validation" ELSE v,
                               scan_type |-> IF v = "Ok" THEN convert_scan_type(dto)
                                             ELSE None]>>
    /\ UNCHANGED <<config, world, api, pc, scan_type, ports, task, tresult, permits, lock_holder,
                   completed, chan, rx_state, open_ports, enh_queue, enh_stage, enhanced,
                   scan_result, finalize_calls, send_buf, dropped_after, db, loaded, clock,
                   grab, limiter>>

\* The front end's call of ScanEngine::scan, reached when nothing was rejected.
EngineInvoked ==
    /\ request # <<>>
    /\ response[1].error = "Ok"
    /\ pc = "idle"
    /\ IF parse_ip(request[1].target) # None
       THEN ScanStep({response[1].scan_type[1]})
       ELSE FailTarget("scan")

\* execute_scan after the engine returned Ok: repository.save_scan.
SaveAfterScan ==
    /\ request # <<>>
    /\ request[1].entry = "execute_scan"
    /\ SaveScan

NextFront == ExecuteScan \/ HandleStartScan \/ EngineInvoked \/ SaveAfterScan

SpecFront == InitFront /\ [][NextFront]_vars

\* ----------------------------------------------------------- banner grab
\* The ports of single calls: the ends of u16, ports of the table and a port outside.
ProbePorts == {0, 22, 80, 443, 8080, 65535}

\* The engine's variables, which a call of the banner grabber or of the web rate
\* limiter leaves alone.
engine_vars ==
    <<config, world, api, pc, scan_type, ports, task, tresult, permits, lock_holder,
      completed, chan, rx_state, open_ports, enh_queue, enh_stage, enhanced, scan_result,
      finalize_calls, send_buf, dropped_after>>

InitGrab ==
    /\ config \in Configs
    /\ world = NoWorld
    /\ Idle

\* Leaving grab_banner: the future of connect_and_read ends or is dropped, and
\* with it every TcpStream it holds.
GrabReturn(result) == [grab EXCEPT !.at = "returned", !.sockets = {}, !.result = result]

\* grab_banner is called: connect_and_read starts TcpStream::connect.
GrabStart ==
    /\ grab.at = "idle"
    /\ \E port \in ProbePorts : grab' = [grab EXCEPT !.at = "connect", !.port = port]
    /\ UNCHANGED <<engine_vars, db, loaded, request, response, clock, limiter>>

\* connect_and_read, TcpStream::connect(addr).await?: the stream, or Err.
GrabConnect ==
    /\ grab.at = "connect"
    /\ \E ok \in BOOLEAN :
          grab' = IF ok THEN [grab EXCEPT !.at = "readable", !.sockets = @ \cup {"stream"}]
                  ELSE GrabReturn("Err")
    /\ UNCHANGED <<engine_vars, db, loaded, request, response, clock, limiter>>

\* stream.try_readable().await?
GrabReadable ==
    /\ grab.at = "readable"
    /\ \E ok \in BOOLEAN :
          grab' = IF ok THEN [grab EXCEPT !.at = "read"] ELSE GrabReturn("Err")
    /\ UNCHANGED <<engine_vars, db, loaded, request, response, clock, limiter>>

\* The first read under its 2 s timeout: text (the cleaned banner is returned),
\* bytes that are no UTF-8 (banner stays empty and is returned), or anything else
\* (nothing read, an IO error, the timeout), after which send_probes is called
\* while stream is still in scope.
GrabRead ==
    /\ grab.at = "read"
    /\ \E r \in {"text", "binary", "silence"} :
          grab' = CASE r = "text" -> GrabReturn("SSH-2.0-OpenSSH_8.9")
                    [] r = "binary" -> GrabReturn("")
                    [] OTHER -> [grab EXCEPT !.at = "probe_connect"]
    /\ UNCHANGED <<engine_vars, db, loaded, request, response, clock, limiter>>

\* send_probe_and_read, TcpStream::connect(addr).await?: a second stream.
GrabProbeConnect ==
    /\ grab.at = "probe_connect"
    /\ \E ok \in BOOLEAN :
          grab' = IF ok THEN [grab EXCEPT !.at = "probe_write",
                                          !.sockets = @ \cup {"probe_stream"}]
                  ELSE GrabReturn("Err")
    /\ UNCHANGED <<engine_vars, db, loaded, request, response, clock, limiter>>

\* stream.write_all(probe).await?
GrabProbeWrite ==
    /\ grab.at = "probe_write"
    /\ \E ok \in BOOLEAN :
          grab' = IF ok THEN [grab EXCEPT !.at = "probe_read"] ELSE GrabReturn("Err")
    /\ UNCHANGED <<engine_vars, db, loaded, request, response, clock, limiter>>

\* The read of the response under its 2 s timeout: text, bytes that are no
\* UTF-8, or nothing.
GrabProbeRead ==
    /\ grab.at = "probe_read"
    /\ \E r \in {"text", "binary", "silence"} :
          grab' = CASE r = "text" -> GrabReturn("SSH-2.0-OpenSSH_8.9")
                    [] r = "binary" -> GrabReturn("[Binary data: 4 bytes]")
                    [] OTHER -> GrabReturn("[No response]")
    /\ UNCHANGED <<engine_vars, db, loaded, request, response, clock, limiter>>

\* timeout(self.timeout, ..) of grab_banner fires at an await of connect_and_read:
\* the future is dropped and Err(Network("Banner grab timeout")) is returned.
GrabTimeout ==
    /\ grab.at \in {"connect", "readable", "read", "probe_connect", "probe_write", "probe_read"}
    /\ grab' = GrabReturn("Err")
    /\ UNCHANGED <<engine_vars, db, loaded, request, response, clock, limiter>>

NextGrab ==
    \/ GrabStart
    \/ GrabConnect
    \/ GrabReadable
    \/ GrabRead
    \/ GrabProbeConnect
    \/ GrabProbeWrite
    \/ GrabProbeRead
    \/ GrabTimeout

SpecGrab == InitGrab /\ [][NextGrab]_vars

\* ------------------------------------------------------- the rate limiter
\* The instants the clock is followed for.
MaxNow == 3

\* The Vec of an identifier; a key the map does not hold reads as an empty Vec,
\* which is what entry(..).or_insert_with(Vec::new) makes of it.
requests_for(requests, id) == IF id \in DOMAIN requests THEN requests[id] ELSE <<>>

\* Vec::retain(|&time| time >= window_start)
retain_from(times, window_start) == SelectSeq(times, LAMBDA time : time >= window_start)

\* requests with the Vec of id replaced (the entry is created when missing).
with_entry(requests, id, times) ==
    [k \in DOMAIN requests \cup {id} |-> IF k = id THEN times ELSE requests[k]]

\* The body of check_rate_limit under the write lock, for the instant `now` the
\* caller read before it took the lock: <<requests after, "Ok" or "Err">>.
check_under_lock(requests, id, now) ==
    LET kept == retain_from(requests_for(requests, id), now - Window)
    IN IF Len(kept) >= MaxRequests
       THEN <<with_entry(requests, id, kept), "Err">>
       ELSE <<with_entry(requests, id, Append(kept, now)), "Ok">>

\* cleanup_old_entries: every Vec is cut to the window and empty entries go.
cleanup(requests, now) ==
    LET cut == [k \in DOMAIN requests |-> retain_from(requests[k], now - Window)]
    IN [k \in {j \in DOMAIN cut : cut[j] # <<>>} |-> cut[k]]

\* The limiter is new; the engine beside it is idle and is not called, and the
\* limiter reads nothing of its config.
InitLimiter ==
    /\ config = CHOOSE c \in Configs : TRUE
    /\ world = NoWorld
    /\ Idle

\* Time passes.
LimiterTick ==
    /\ limiter.now < MaxNow
    /\ limiter' = [limiter EXCEPT !.now = @ + 1]
    /\ UNCHANGED <<engine_vars, db, loaded, request, response, clock, grab>>

\* check_rate_limit is entered: let now = Instant::now(), then the thread asks
\* for the write lock and waits while another thread holds it.
CheckEnter ==
    /\ \E t \in Threads, id \in Identifiers :
          /\ limiter.calls[t].at = "outside"
          /\ limiter' = [limiter EXCEPT !.calls[t] =
                [at |-> "write", identifier |-> id, now |-> limiter.now, result |-> NoneV]]
    /\ UNCHANGED <<engine_vars, db, loaded, request, response, clock, grab>>

\* The thread gets the write lock: retain, the length test, the push, and the
\* return, which releases the lock.
CheckLocked ==
    /\ \E t \in Threads :
          /\ limiter.calls[t].at = "write"
          /\ LET c == limiter.calls[t]
                 res == check_under_lock(limiter.requests, c.identifier, c.now)
             IN limiter' = [limiter EXCEPT
                   !.requests = res[1],
                   !.admitted[c.identifier] = IF res[2] = "Ok" THEN Append(@, c.now) ELSE @,
                   !.calls[t] = Outside(res[2]),
                   !.stale = @ \/ c.now < limiter.now]
    /\ UNCHANGED <<engine_vars, db, loaded, request, response, clock, grab>>

\* cleanup_old_entries runs (the callers of the limiter are outside it or wait
\* for the lock).
Cleanup ==
    /\ limiter.requests # <<>>
    /\ limiter' = [limiter EXCEPT !.requests = cleanup(@, limiter.now)]
    /\ UNCHANGED <<engine_vars, db, loaded, request, response, clock, grab>>

NextLimiter == LimiterTick \/ CheckEnter \/ CheckLocked \/ Cleanup

SpecLimiter == InitLimiter /\ [][NextLimiter]_vars

\* ------------------------------------------------------- protocol utilities
\* char::to_lowercase on the letters of the table's names and of the queries.
lower_char(c) ==
    CASE c = "A" -> "a" [] c = "B" -> "b" [] c = "C" -> "c" [] c = "D" -> "d"
      [] c = "E" -> "e" [] c = "F" -> "f" [] c = "G" -> "g" [] c = "H" -> "h"
      [] c = "I" -> "i" [] c = "J" -> "j" [] c = "K" -> "k" [] c = "L" -> "l"
      [] c = "M" -> "m" [] c = "N" -> "n" [] c = "O" -> "o" [] c = "P" -> "p"
      [] c = "Q" -> "q" [] c = "R" -> "r" [] c = "S" -> "s" [] c = "T" -> "t"
      [] c = "U" -> "u" [] c = "V" -> "v" [] c = "W" -> "w" [] c = "X" -> "x"
      [] c = "Y" -> "y" [] c = "Z" -> "z" [] OTHER -> c

\* str::to_lowercase
RECURSIVE to_lowercase(_)
to_lowercase(text) ==
    IF Len(text) = 0 THEN ""
    ELSE lower_char(SubSeq(text, 1, 1)) \o to_lowercase(SubSeq(text, 2, Len(text)))

\* str::contains: pattern is a substring of text.
contains(text, pattern) ==
    \E i \in 1..(Len(text) - Len(pattern) + 1) :
        SubSeq(text, i, i + Len(pattern) - 1) = pattern

\* ProtocolUtils::get_common_ports: the inserts in their order; a later insert of
\* a key replaces the earlier one.
common_port_inserts ==
    <<<<21, "FTP">>, <<22, "SSH">>, <<23, "Telnet">>, <<25, "SMTP">>, <<53, "DNS">>,
      <<80, "HTTP">>, <<110, "POP3">>, <<143, "IMAP">>, <<443, "HTTPS">>,
      <<993, "IMAPS">>, <<995, "POP3S">>,
      <<1433, "MSSQL">>, <<3306, "MySQL">>, <<5432, "PostgreSQL">>,
      <<27017, "MongoDB">>, <<6379, "Redis">>,
      <<3389, "RDP">>, <<5900, "VNC">>,
      <<139, "NetBIOS">>, <<445, "SMB">>,
      <<111, "RPC">>, <<135, "MSRPC">>, <<161, "SNMP">>, <<389, "LDAP">>,
      <<636, "LDAPS">>, <<993, "IMAPS">>, <<995, "POP3S">>, <<1723, "PPTP">>,
      <<8080, "HTTP-Alt">>, <<8443, "HTTPS-Alt">>>>

get_common_ports ==
    LET keys == {common_port_inserts[i][1] : i \in DOMAIN common_port_inserts}
        last(k) == CHOOSE i \in DOMAIN common_port_inserts :
                      /\ common_port_inserts[i][1] = k
                      /\ \A j \in DOMAIN common_port_inserts :
                            common_port_inserts[j][1] = k => j <= i
    IN [k \in keys |-> common_port_inserts[last(k)][2]]

\* ProtocolUtils::get_port_description: get(&port).copied()
get_port_description(port) ==
    IF port \in DOMAIN get_common_ports THEN Some(get_common_ports[port]) ELSE None

\* The filter of get_service_ports: the keys whose name contains the query, both
\* in lower case.
service_port_set_exact_case(service) ==
    {p \in DOMAIN get_common_ports : contains(get_common_ports[p], service)}
service_port_set(service) ==
    {p \in DOMAIN get_common_ports :
        contains(to_lowercase(get_common_ports[p]), to_lowercase(service))}

\* ProtocolUtils::get_service_ports: the Vec collected from the HashMap's
\* iterator, which visits the keys in any order.
get_service_ports(service) ==
    LET found == service_port_set(service)
        n == Cardinality(found)
    IN {v \in [1..n -> found] : \A i, j \in 1..n : v[i] = v[j] => i = j}

\* The queries and the ports the utilities are called with.
ServiceQueries == {"HTTP", "http", "Ssh", "sql", "IMAP", "rpc", "-alt", "zzz", "POP3S"}
DescriptionPorts == {0, 22, 80, 993, 8080, 9999, 65535}

\* ProtocolUtils::get_port_description or get_service_ports is called and returns:
\* request keeps the argument, tresult what came back.
UtilsCall ==
    /\ pc = "idle"
    /\ request = <<>>
    /\ \/ \E port \in DescriptionPorts :
             /\ api' = "get_port_description"
             /\ request' = <<[port |-> port]>>
             /\ tresult' = <<get_port_description(port)>>
       \/ \E service \in ServiceQueries :
          \E v \in get_service_ports(service) :
             /\ api' = "get_service_ports"
             /\ request' = <<[service |-> service]>>
             /\ tresult' = <<v>>
    /\ pc' = "returned"
    /\ UNCHANGED <<config, world, scan_type, ports, task, permits, lock_holder, completed, chan,
                   rx_state, open_ports, enh_queue, enh_stage, enhanced, scan_result,
                   finalize_calls, send_buf, dropped_after, db, loaded, response, clock,
                   grab, limiter>>

\* ---------------------------------------------------- one probe as one step
InitProbe ==
    /\ config \in Configs
    /\ world = NoWorld
    /\ Idle

\* Scanner::scan_port is called and returns, on the scanner the engine selects
\* (syn_scanner under stealth_mode, port_scanner otherwise) or on the
\* UdpScanner; world keeps the connection result the probe met.
ProbeCall ==
    /\ pc = "idle"
    /\ \E port \in ProbePorts, c \in ConnResults, udp \in BOOLEAN :
          /\ ports' = <<port>>
          /\ world' = [p \in {port} |-> c]
          /\ tresult' = <<IF udp THEN UdpScanner_scan_port(port, c)
                           ELSE Engine_scan_port(config, port, c)>>
          /\ task' = <<"collected">>
          /\ api' = IF udp THEN "udp_scan_port" ELSE "scan_port"
    /\ pc' = "returned"
    /\ UNCHANGED <<others, config, scan_type, permits, lock_holder, completed, chan, rx_state, open_ports,
                   enh_queue, enh_stage, enhanced, scan_result, finalize_calls, send_buf,
                   dropped_after>>

\* ServiceDetector::detect_service is called and returns: world keeps what the
\* detector's grab_banner gave, tresult the ServiceInfo.
DetectCall ==
    /\ pc = "idle"
    /\ \E port \in ProbePorts, g \in DetectGrabs :
       \E s \in detect_service_results(port, g) :
          /\ ports' = <<port>>
          /\ world' = [p \in {port} |-> g]
          /\ tresult' = <<s>>
          /\ task' = <<"collected">>
          /\ api' = "detect_service"
    /\ pc' = "returned"
    /\ UNCHANGED <<others, config, scan_type, permits, lock_holder, completed, chan, rx_state, open_ports,
                   enh_queue, enh_stage, enhanced, scan_result, finalize_calls, send_buf,
                   dropped_after>>

NextProbe == ProbeCall \/ DetectCall \/ UtilsCall

SpecProbe == InitProbe /\ [][NextProbe]_vars

\* ================================================================ properties
EngineCall == api \in {"scan", "scan_with_progress"}

\* ---------------------------------------------------------------------- C1
\* C1: in scan_ports_with_progress and in PortScanner::scan_ports, with max
\* concurrency N, the probes that have entered scan_port and not returned are at
\* most N in every reachable state.
C1_InFlightAtMostN ==
    api \in {"scan_with_progress", "scan_ports"} => InFlight <= config.max_concurrent_tasks

\* N probes are in scan_port at once while a port of the list still waits.
C1_Witness ==
    /\ api = "scan_with_progress"
    /\ InFlight = config.max_concurrent_tasks
    /\ Pending # {}

\* ---------------------------------------------------------------------- C2
\* The order of the Protocol enum's variants.
TransportRank(protocol) ==
    CASE protocol = "Tcp" -> 0
      [] protocol = "Udp" -> 1
      [] OTHER -> 2

KeyLess(a, b) ==
    \/ TransportRank(a.protocol) < TransportRank(b.protocol)
    \/ TransportRank(a.protocol) = TransportRank(b.protocol) /\ a.port < b.port

\* C2: the outcome list of every ScanResult that scan or scan_with_progress
\* returns is sorted ascending by (transport, port) and has no two entries with
\* the same (transport, port), Targeted lists with repeated ports included.
C2_SortedNoDuplicates ==
    EngineCall /\ pc = "returned" =>
        \A i, j \in DOMAIN scan_result.open_ports :
            i < j => KeyLess(scan_result.open_ports[i], scan_result.open_ports[j])

\* ---------------------------------------------------------------------- C3
OpenOutcomes(list) == {i \in DOMAIN list : list[i].status = "Open"}

\* C3: in every ScanResult the engine produces, statistics.open_ports is the
\* number of outcomes of the result whose status is Open.
C3_OpenCountMatches ==
    EngineCall /\ pc = "returned" =>
        scan_result.statistics.open_ports = Cardinality(OpenOutcomes(scan_result.open_ports))

\* ---------------------------------------------------------------------- C4
\* C4: in every finalized ScanResult open_ports + closed_ports + filtered_ports
\* is at most total_ports, and success_rate is 100 * open_ports / total_ports
\* when total_ports > 0 and 0 otherwise.
C4_StatisticsConsistent ==
    EngineCall /\ pc = "returned" =>
        LET st == scan_result.statistics
        IN /\ st.open_ports + st.closed_ports + st.filtered_ports <= st.total_ports
           /\ IF st.total_ports > 0
              THEN st.success_rate.num * st.total_ports
                      = 100 * st.open_ports * st.success_rate.den
              ELSE st.success_rate.num = 0

\* ---------------------------------------------------------------------- C5
\* C5: a scan that is stopped after k probes were dispatched ends with a
\* finalized ScanResult of at most k outcomes. The run has ended in every state
\* with pc = "dropped": no step leaves it.
C5_CancelledScanFinalizes ==
    EngineCall /\ pc = "dropped" =>
        /\ scan_result.end_time = "finalized"
        /\ Len(scan_result.open_ports) <= dropped_after

\* ---------------------------------------------------------------------- C6
\* C6: progress emission in scan_with_progress does not block: no probe task
\* ever waits on the progress channel, however slowly the receiver reads.
C6_NoTaskWaitsOnProgress ==
    \A i \in DOMAIN task : task[i] # "sending"

\* ---------------------------------------------------------------------- C7
AllCollected == \A i \in DOMAIN task : task[i] = "collected"
NothingLeftToAppend == open_ports = <<>> /\ enh_queue = <<>> /\ enhanced = <<>>

FailedProbes == {i \in DOMAIN task : task[i] = "collected" /\ tresult[i].status # "Open"}

\* C8: a probe that fails or times out never makes scan or scan_with_progress
\* return an error: the call ends in Err only before any probe (the target did
\* not resolve), the ports after a failed probe are all probed before the call
\* goes on, the returned ScanResult is finalized, and a panic in finalize is one
\* that the scan mode gives with no probe result at all.
C8_ProbeFailureNeverAborts ==
    EngineCall =>
        /\ pc = "failed" => task = <<>>
        /\ pc \in {"enhancing", "adding", "finalizing", "returned", "panicked"} => AllCollected
        /\ pc = "returned" => scan_result.end_time = "finalized"
        /\ pc = "panicked" => update_statistics("debug", scan_type, <<>>) = None

\* A call returned Ok although its first probe failed and a later one found an
\* open port.
C8_Witness ==
    /\ EngineCall
    /\ pc = "returned"
    /\ 1 \in FailedProbes
    /\ scan_result.open_ports # <<>>

\* ---------------------------------------------------------------------- C9
\* The status the statement gives to each connection result.
ClaimedStatus(c) ==
    CASE c = "connected" -> "Open"
      [] c = "refused" -> "Closed"
      [] c \in {"timeout", "unreachable"} -> "Filtered"
      [] OTHER -> "Unknown"

\* C9: the TCP-connect probe gives Open for a completed handshake, Closed for a
\* refused connection, Filtered for a timeout or an unreachable target and
\* Unknown for any other IO error; a timed-out probe is never Closed.
C9_StatusMapping ==
    api = "scan_port" /\ pc = "returned" /\ ~config.stealth_mode =>
        tresult[1].status = ClaimedStatus(ConnOf(world, ports[1]))

\* --------------------------------------------------------------------- C10
SameOutcome(a, b) ==
    /\ a.port = b.port
    /\ a.status = b.status
    /\ a.protocol = b.protocol
    /\ a.service = b.service

StealthFlipped(cfg) == [cfg EXCEPT !.stealth_mode = ~cfg.stealth_mode]

\* The outcome lists ScanEngine::scan can return under cfg in world w.
ScanOutcomes(cfg, w, st) ==
    LET found == scan_ports(cfg, w, get_ports_to_scan(st))
    IN {add_all(<<>>, enhance_scan_results(cfg, found, plan)) :
            plan \in GrabPlans(cfg, Len(found))}

\* C10: the SynScanner probe returns the port, status, protocol and service of
\* the TCP-connect probe on the same connection result, and the outcomes the
\* engine returned are outcomes of the same scan with stealth_mode the other way.
C10_StealthSameAsConnect ==
    EngineCall /\ pc = "returned" =>
        /\ \A port \in ProbePorts, c \in ConnResults :
              SameOutcome(SynScanner_scan_port(port, c), PortScanner_scan_port(port, c))
        /\ scan_result.open_ports \in ScanOutcomes(StealthFlipped(config), world, scan_type)

\* A scan under stealth_mode returned an open port.
C10_Witness ==
    /\ EngineCall
    /\ pc = "returned"
    /\ config.stealth_mode
    /\ scan_result.open_ports # <<>>

\* --------------------------------------------------------------------- C11
\* C11: a scan that runs to its end yields one outcome for every port of the
\* list, whatever its status: the finalized ScanResult holds an outcome for each
\* position of the port list, the Closed ones as well as the Open ones.
C11_OneOutcomePerPort ==
    EngineCall /\ pc = "returned" =>
        /\ Len(scan_result.open_ports) = Len(ports)
        /\ \A i \in DOMAIN ports :
              \E j \in DOMAIN scan_result.open_ports :
                  /\ scan_result.open_ports[j].port = ports[i]
                  /\ scan_result.open_ports[j].status = tresult[i].status

\* --------------------------------------------------------------------- C12
\* C12: every outcome with status Open that a probe returns, by TCP connect,
\* under stealth or by UDP, has its response_time present.
C12_OpenHasResponseTime ==
    api \in {"scan_port", "udp_scan_port"} /\ pc = "returned" /\ tresult[1].status = "Open" =>
        tresult[1].response_time # NoneV

\* A probe under stealth returned an Open outcome.
C12_Witness ==
    /\ api = "scan_port"
    /\ pc = "returned"
    /\ config.stealth_mode
    /\ tresult[1].status = "Open"
    /\ tresult[1].response_time = "Some"

\* --------------------------------------------------------------------- C13
\* C13: when enable_banner_grabbing is false no outcome of the ScanResult has a
\* banner, whatever enable_service_detection is and whatever the probes and the
\* grabs return.
C13_NoBannerWhenDisabled ==
    EngineCall /\ pc = "returned" /\ ~config.enable_banner_grabbing =>
        \A i \in DOMAIN scan_result.open_ports : scan_result.open_ports[i].banner = NoneV

\* Banner grabbing is off and service detection, which read a banner of its own,
\* named the service from it: the outcome has that service.
C13_Witness ==
    /\ EngineCall
    /\ pc = "returned"
    /\ ~config.enable_banner_grabbing
    /\ \E i \in DOMAIN scan_result.open_ports :
          /\ scan_result.open_ports[i].service # None
          /\ scan_result.open_ports[i].service[1].confidence = 90

\* C14: a finalized ScanResult that is serialized and read back has the scan mode
\* of the original, the bounds of a range and the ports of a Targeted list
\* included: the stored scan_type belongs to no other scan mode.
C14_RoundTripKeepsScanMode ==
    pc = "loaded" =>
        \A st \in StoreScanTypes :
            scan_type_to_string(st) = loaded[1].scan.scan_type => st = scan_type

\* --------------------------------------------------------------------- C15
\* C15: a ServiceInfo of service identification has confidence 90 when the banner
\* matched a pattern, 80 when no banner was collected and the service is the port
\* table's entry, and 60 when a banner was collected and matched no pattern, and
\* then extra_info carries the excerpt of the banner; the probe's own
\* identification, which has no banner, gives 80.
C15_ConfidenceContract ==
    /\ api = "detect_service" /\ pc = "returned" =>
          LET g == world[ports[1]]
              s == tresult[1]
          IN CASE NoBanner(g) -> s.confidence = 80 /\ s.name = DetectorTable(ports[1])[1]
               [] ~NoBanner(g) /\ PatternTags(g) # {} ->
                      s.confidence = 90 /\ s.name \in PatternTags(g)
               [] OTHER -> /\ s.confidence = 60
                           /\ s.name = DetectorTable(ports[1])[1]
                           /\ s.extra_info = "Banner: " \o chars_take(g, 100)
    /\ api = "scan_port" /\ pc = "returned" /\ tresult[1].service # None =>
          tresult[1].service[1].confidence = 80

\* A banner longer than the excerpt and with no pattern in it came back at 60.
C15_Witness ==
    /\ api = "detect_service" /\ pc = "returned"
    /\ world[ports[1]] = LongBanner
    /\ tresult[1].confidence = 60
    /\ Len(tresult[1].extra_info) = 108

\* --------------------------------------------------------------------- C16
\* C16: for a port outside the static port table the identification by port
\* returns name "unknown", no product and confidence 0, in the detector's
\* fallback and in the probe's own identification.
C16_UnknownPortConfidenceZero ==
    /\ api = "detect_service" /\ pc = "returned" /\ NoBanner(world[ports[1]])
          /\ DetectorTable(ports[1])[1] = "unknown" =>
             /\ tresult[1].name = "unknown"
             /\ tresult[1].product = NoneV
             /\ tresult[1].confidence = 0
    /\ api = "scan_port" /\ pc = "returned" /\ tresult[1].service # None
          /\ PortTable(ports[1])[1] = "unknown" =>
             /\ tresult[1].service[1].name = "unknown"
             /\ tresult[1].service[1].product = NoneV
             /\ tresult[1].service[1].confidence = 0

\* --------------------------------------------------------------------- C17
\* C17: the port list materialized for the scan mode is sorted ascending and
\* free of duplicates, and for Targeted(list) it has exactly the elements of list.
C17_PortListSortedNoDuplicates ==
    EngineCall /\ pc \notin {"idle", "failed"} =>
        /\ \A i \in 1..(Len(ports) - 1) : ports[i] < ports[i + 1]
        /\ scan_type.kind = "Targeted" =>
              {ports[i] : i \in DOMAIN ports} = {scan_type.ports[i] : i \in DOMAIN scan_type.ports}

\* --------------------------------------------------------------------- C18
\* C18: a scan started with CustomRange(a, b) where a > b is rejected: the call
\* fails before any probe and never gets as far as a ScanResult, so a call that
\* has not failed has no reversed range.
C18_ReversedRangeRejected ==
    EngineCall /\ pc # "failed" =>
        ~(scan_type.kind = "CustomRange" /\ scan_type.start > scan_type.end_)

\* --------------------------------------------------------------------- C19
\* C19: with a non-empty allow-list, a request whose target is not in the list is
\* denied before ScanEngine::scan is invoked: the front end answers with an error
\* and the engine is never called.
C19_AllowListBeforeEngine ==
    request # <<>> /\ request[1].allowed_targets # {}
        /\ (parse_ip(request[1].target) = None
            \/ parse_ip(request[1].target)[1] \notin request[1].allowed_targets) =>
            /\ response[1].error # "Ok"
            /\ api = NoneV

\* --------------------------------------------------------------------- C20
\* C20: with rate_limit set, the probe starts come out of a bucket of
\* max_concurrent_tasks tokens refilled with one token every 1/rate_limit
\* seconds, so the probes started never outnumber max_concurrent_tasks plus the
\* refill periods that have passed.
C20_ProbeStartsWithinBucket ==
    api \in {"scan", "scan_with_progress"} /\ config.rate_limit # None =>
        Dispatched <= config.max_concurrent_tasks + clock

\* --------------------------------------------------------------------- C21
\* The ports of the common-port table whose name has the query in it, whatever
\* the case of either, written out for each query.
ExpectedServicePorts(service) ==
    CASE service \in {"HTTP", "http"} -> {80, 443, 8080, 8443}
      [] service = "Ssh" -> {22}
      [] service = "sql" -> {1433, 3306, 5432}
      [] service = "IMAP" -> {143, 993}
      [] service = "rpc" -> {111, 135}
      [] service = "-alt" -> {8080, 8443}
      [] service = "POP3S" -> {995}
      [] OTHER -> {}

\* The keys of the common-port table.
TableKeys ==
    {21, 22, 23, 25, 53, 80, 110, 111, 135, 139, 143, 161, 389, 443, 445, 636, 993, 995,
     1433, 1723, 3306, 3389, 5432, 5900, 6379, 8080, 8443, 27017}

\* C21: get_service_ports(s) returns exactly the ports of the common-port table
\* whose name contains s case-insensitively, each once, and get_port_description(p)
\* is Some(name) exactly when p is a key of the table.
C21_ProtocolUtilsLookups ==
    /\ api = "get_service_ports" /\ pc = "returned" =>
          /\ {tresult[1][i] : i \in DOMAIN tresult[1]} = ExpectedServicePorts(request[1].service)
          /\ Len(tresult[1]) = Cardinality(ExpectedServicePorts(request[1].service))
    /\ api = "get_port_description" /\ pc = "returned" =>
          /\ (tresult[1] # None) = (request[1].port \in TableKeys)
          /\ request[1].port = 80 => tresult[1] = Some("HTTP")

\* get_service_ports("http") came back with 8080 ahead of 80.
C21_Witness ==
    /\ api = "get_service_ports" /\ pc = "returned"
    /\ request[1].service = "http"
    /\ Len(tresult[1]) = 4
    /\ \E i, j \in DOMAIN tresult[1] : i < j /\ tresult[1][i] = 8080 /\ tresult[1][j] = 80

\* --------------------------------------------------------------------- C22
\* C22: for every Open port that is enriched, service identification consumes the
\* banner that the banner read obtained: with both enrichments on, the service of
\* every outcome is what identification gives on the outcome's own banner (on no
\* banner when the read gave none).
C22_ServiceFromTheBannerRead ==
    EngineCall /\ pc = "returned"
        /\ config.enable_service_detection /\ config.enable_banner_grabbing =>
        \A i \in DOMAIN scan_result.open_ports :
            LET o == scan_result.open_ports[i]
                g == IF o.banner = NoneV THEN "Err" ELSE o.banner
            IN o.service = Some(detect_service(o.port, g))

\* --------------------------------------------------------------------- C23
\* The snapshots of the scan that are still in sight, in the order of emission:
\* those queued in the channel, then the one its task is sending.
SnapshotsInOrder == chan \o (IF lock_holder # 0 THEN <<send_buf>> ELSE <<>>)

\* C23: in the snapshots one scan emits, current_port is the count of dispatched
\* probes, so it is at most the number of ports, and it never decreases from one
\* snapshot to the next.
C23_CurrentPortMonotonic ==
    api = "scan_with_progress" =>
        /\ \A k \in DOMAIN SnapshotsInOrder : SnapshotsInOrder[k].current_port <= Len(ports)
        /\ \A k \in 1..(Len(SnapshotsInOrder) - 1) :
              SnapshotsInOrder[k].current_port <= SnapshotsInOrder[k + 1].current_port

\* --------------------------------------------------------------------- C24
\* The rule table's tags in the order of the inserts of ServiceDetector::new.
RuleOrder ==
    <<"ssh", "http", "ftp", "smtp", "dns", "mysql", "postgresql", "redis", "mongodb",
      "rdp", "vnc">>

\* The first tag of RuleOrder that has a pattern in the banner.
EarliestTag(banner) ==
    RuleOrder[CHOOSE k \in DOMAIN RuleOrder :
                 /\ RuleOrder[k] \in PatternTags(banner)
                 /\ \A j \in 1..(k - 1) : RuleOrder[j] \notin PatternTags(banner)]

\* C24: banner matching is first-match-wins over the ordered rule table: for a
\* banner with patterns of several tags every call returns the earliest matching
\* tag of that order.
C24_FirstMatchWins ==
    api = "detect_service" /\ pc = "returned" /\ ~NoBanner(world[ports[1]])
        /\ PatternTags(world[ports[1]]) # {} =>
            tresult[1].name = EarliestTag(world[ports[1]])

\* --------------------------------------------------------------------- C25
\* C25: during the banner read of one port at most one socket to the target is
\* open at any moment, and when grab_banner has returned, on whatever path, no
\* connection is left open.
C25_OneSocketAndNoneLeftOpen ==
    /\ Cardinality(grab.sockets) <= 1
    /\ grab.at = "returned" => grab.sockets = {}

\* --------------------------------------------------------------------- C26
\* C26: for every scan mode, total_ports and packets_sent of the finalized
\* ScanResult are the number of ports in the list that get_ports_to_scan
\* materialized for that mode, which is the list the engine probed.
C26_TotalIsTheListLength ==
    EngineCall /\ pc = "returned" =>
        /\ scan_result.statistics.total_ports = Len(get_ports_to_scan(scan_result.scan_type))
        /\ scan_result.statistics.packets_sent = Len(get_ports_to_scan(scan_result.scan_type))

\* --------------------------------------------------------------------- C27
\* The total of update_statistics computed in the integers.
ExactTotal(st) ==
    CASE st.kind = "Quick" -> 100
      [] st.kind = "Standard" -> 1000
      [] st.kind = "Full" -> 65535
      [] st.kind = "CustomRange" -> st.end_ - st.start + 1
      [] st.kind = "Targeted" -> Len(st.ports)

\* C27: for every scan type and outcome list of the engine the 16-bit arithmetic
\* of update_statistics is exact: finalize never panics on it, and total_ports,
\* open_ports and closed_ports are the values the integers give.
C27_StatisticsArithmeticExact ==
    EngineCall =>
        /\ pc # "panicked"
        /\ pc = "returned" =>
              /\ scan_result.statistics.total_ports = ExactTotal(scan_result.scan_type)
              /\ scan_result.statistics.open_ports = Len(scan_result.open_ports)
              /\ scan_result.statistics.closed_ports
                    = ExactTotal(scan_result.scan_type) - Len(scan_result.open_ports)

\* --------------------------------------------------------------------- C28
\* The ports of the positions of the port list whose probe returned Open, in
\* ascending order: a function of the port list and the per-port probe results
\* alone, whatever the order in which the probes completed.
RECURSIVE OpenPortsOf(_, _, _)
OpenPortsOf(ps, rs, n) ==
    IF n = 0 THEN <<>>
    ELSE IF rs[n].status = "Open"
         THEN push_and_sort(OpenPortsOf(ps, rs, n - 1), [port |-> ps[n]])
         ELSE OpenPortsOf(ps, rs, n - 1)

PortsIn(list) == [i \in DOMAIN list |-> [port |-> list[i].port]]

\* C28: for the same port list and per-port probe results, scan_with_progress
\* (any completion order) and scan (list order) return the same sequence of
\* Open ports and the same statistics counts: both are the function of the
\* port list, the probe results and the scan mode written here.
C28_SameResultWhateverTheOrder ==
    EngineCall /\ pc = "returned" =>
        /\ PortsIn(scan_result.open_ports) = OpenPortsOf(ports, tresult, Len(ports))
        /\ scan_result.statistics.open_ports = Len(OpenPortsOf(ports, tresult, Len(ports)))
        /\ scan_result.statistics.total_ports = Wrap(total_of("release", scan_result.scan_type))
        /\ scan_result.statistics.closed_ports
              = Wrap(scan_result.statistics.total_ports - scan_result.statistics.open_ports)

\* A progress scan returned two open ports whose probes completed against the
\* list order: the last snapshot sent is of the first port of the list.
C28_Witness ==
    /\ api = "scan_with_progress" /\ pc = "returned"
    /\ Len(ports) = 2 /\ ports[1] < ports[2]
    /\ Len(scan_result.open_ports) = 2
    /\ \E k \in DOMAIN chan : chan[k].completed = 2 /\ chan[k].current_port = ports[1]

\* --------------------------------------------------------------------- C29
\* C29: for every finite port list, an awaited ScanEngine::scan eventually
\* returns: Ok(scan_result) after finalize, or Err for a target that does not
\* parse.
C29_ScanEventuallyReturns == (api = "scan") ~> (pc \in {"returned", "failed"})

\* An awaited scan always reaches finalize: every probe and every enrichment of
\* the call ends, and finalize is entered once.
C29_FinalizeReached ==
    (api = "scan" /\ pc = "scanning") ~> (finalize_calls = 1 /\ pc \in {"returned", "panicked"})

\* PortScanner::scan_ports, awaited, returns with every permit given back.
C29_PermitsReleased ==
    (api = "scan_ports") ~> (pc = "returned" /\ permits = InFlightLimit)

\* --------------------------------------------------------------------- C30
\* The admitted calls of id whose timestamps lie in the span [from, from + Window].
AdmittedWithin(id, from) ==
    {k \in DOMAIN limiter.admitted[id] :
        from <= limiter.admitted[id][k] /\ limiter.admitted[id][k] <= from + Window}

\* C30: after any check_rate_limit calls, the admitted calls of one identifier
\* whose timestamps lie within any span of length window are at most
\* max_requests.
C30_AdmittedWithinWindowBounded ==
    \A id \in Identifiers, from \in 0..MaxNow :
        Cardinality(AdmittedWithin(id, from)) <= MaxRequests

\* A call that is rejected records no timestamp, and a call for one identifier
\* leaves the Vec of every other identifier as it is.
C30_RejectedAndOthersUntouched ==
    [][\A t \in Threads :
          limiter.calls[t].at = "write" /\ limiter'.calls[t].at = "outside" =>
             LET id == limiter.calls[t].identifier
             IN /\ \A other \in Identifiers \ {id} :
                      /\ requests_for(limiter'.requests, other)
                            = requests_for(limiter.requests, other)
                      /\ limiter'.admitted[other] = limiter.admitted[other]
                /\ limiter'.calls[t].result = "Err" =>
                      /\ limiter'.admitted = limiter.admitted
                      /\ \A k \in DOMAIN requests_for(limiter'.requests, id) :
                            \E j \in DOMAIN requests_for(limiter.requests, id) :
                               requests_for(limiter'.requests, id)[k]
                                  = requests_for(limiter.requests, id)[j]
                      /\ Len(requests_for(limiter'.requests, id))
                            <= Len(requests_for(limiter.requests, id))]_vars

\* When every call got the lock at the instant it read, the bound holds.
C30_BoundWhenNoCallIsStale == ~limiter.stale => C30_AdmittedWithinWindowBounded
====
